---------------------------- MODULE Spec2Model ----------------------------
(***************************************************************************)
(* A model of three pieces of the nx workspace tooling:                    *)
(*   - the Cypress plugin (createNodes / createDependencies /              *)
(*     buildCypressTargets / normalizeOptions) and its targets cache,      *)
(*   - the web file-server executor (fileServerExecutor),                  *)
(*   - the expo build executor (buildExecutor / runCliBuild).              *)
(*                                                                         *)
(* JavaScript values are modelled as follows.  A string is a TLA+ string.  *)
(* An object is a function whose domain is its set of own keys.  An array  *)
(* is a sequence.  undefined and null are the records Undefined and Null.  *)
(* Where the code inspects the run-time type of a value (Array.isArray),   *)
(* the value is wrapped: [str |-> s] or [arr |-> seq].                     *)
(***************************************************************************)
EXTENDS Integers, Sequences, FiniteSets, TLC

VARIABLES
  \* ---- the Cypress plugin: the last createNodes invocation
  lastOp,           \* the operation that produced the current state
  callerOptions,    \* the options object owned by the caller (heap object)
  passedOptions,    \* history: callerOptions as it was when passed in
  options,          \* the local variable `options` of createNodes
  input,            \* the remaining inputs of the invocation
  result,           \* what buildCypressTargets and createNodes produced
  \* ---- the Cypress plugin: the targets cache over processes
  proc,             \* plugin module of the process: "down", "up" or "failed"
  store,            \* the cache file cypress.hash on disk
  targetsCache,     \* const targetsCache (read at module load)
  calculatedTargets,\* const calculatedTargets (accumulator)
  synth,            \* history: hash -> syntheses completed in this process
  resolved,         \* history: hash -> entry createNodes used in this process
  calls,            \* createNodes invocations in this process
  \* ---- the file-server executor
  fs,
  \* ---- the expo build executor: the module's childProcess, the forked
  \* children and the buildExecutor invocations of the process
  eb

pluginCallVars == <<lastOp, callerOptions, passedOptions, options, input, result>>
cacheVars == <<proc, store, targetsCache, calculatedTargets, synth, resolved, calls>>
vars == <<pluginCallVars, cacheVars, fs, eb>>

-----------------------------------------------------------------------------
(* JavaScript values *)

Undefined == [undefined |-> TRUE]
Null == [null |-> TRUE]
EmptyObj == <<>>

Str(s) == [str |-> s]
Arr(a) == [arr |-> a]
IsArray(v) == "arr" \in DOMAIN v

Has(o, k) == k \in DOMAIN o

\* o.k for an object o: undefined when k is not an own key
Get(o, k) == IF k \in DOMAIN o THEN o[k] ELSE Undefined

\* a string-valued property is truthy when present and not ''
TruthyStr(o, k) == k \in DOMAIN o /\ o[k] # ""

\* o[k] = v
Put(o, k, v) == [x \in DOMAIN o \cup {k} |-> IF x = k THEN v ELSE o[x]]

\* delete o[k]
Delete(o, k) == [x \in DOMAIN o \ {k} |-> o[x]]

\* { ...a, ...b } where a and b are objects or undefined
SpreadOf(a) == IF a = Undefined THEN EmptyObj ELSE a
Spread(a, b) ==
  LET x == SpreadOf(a)
      y == SpreadOf(b)
  IN [k \in DOMAIN x \cup DOMAIN y |-> IF k \in DOMAIN y THEN y[k] ELSE x[k]]

-----------------------------------------------------------------------------
(* Paths (node:path and devkit's normalizePath / joinPathFragments).        *)
(* A string that is a path is modelled as the sequence of its segments     *)
(* together with the separator that stands between them in the string.     *)

P(segs) == [sep |-> "/", segs |-> segs]

RECURSIVE JoinSegs(_, _)
JoinSegs(segs, sep) ==
  IF segs = <<>> THEN ""
  ELSE IF Len(segs) = 1 THEN segs[1]
  ELSE segs[1] \o sep \o JoinSegs(Tail(segs), sep)

\* the string itself
PathString(p) == JoinSegs(p.segs, p.sep)

\* path.normalize: '.' and '' segments are dropped, '..' pops a segment
RECURSIVE Resolve(_, _)
Resolve(segs, acc) ==
  IF segs = <<>> THEN acc
  ELSE LET h == Head(segs) IN
       IF h = "" \/ h = "." THEN Resolve(Tail(segs), acc)
       ELSE IF h = ".." /\ acc # <<>> /\ acc[Len(acc)] # ".."
            THEN Resolve(Tail(segs), SubSeq(acc, 1, Len(acc) - 1))
            ELSE Resolve(Tail(segs), Append(acc, h))

Sep(platform) == IF platform = "win32" THEN "\\" ELSE "/"

\* devkit normalizePath: backslashes become forward slashes
normalizePath(p) == [p EXCEPT !.sep = "/"]

\* path.join(a, b): the normalized path, '.' when nothing is left
join(a, b, platform) ==
  LET segs == Resolve(a.segs \o b.segs, <<>>)
  IN [sep |-> Sep(platform), segs |-> IF segs = <<>> THEN <<".">> ELSE segs]

\* devkit joinPathFragments(a, b, c) = normalizePath(path.join(a, b, c))
joinPathFragments3(a, b, c, platform) ==
  normalizePath(join(join(a, b, platform), c, platform))

joinPathFragments2(a, b, platform) == normalizePath(join(a, b, platform))

RECURSIVE CommonPrefixLen(_, _)
CommonPrefixLen(a, b) ==
  IF a = <<>> \/ b = <<>> THEN 0
  ELSE IF Head(a) = Head(b) THEN 1 + CommonPrefixLen(Tail(a), Tail(b))
  ELSE 0

\* path.relative(from, to), both relative to the same working directory
relative(from, to, platform) ==
  LET f == Resolve(from.segs, <<>>)
      t == Resolve(to.segs, <<>>)
      n == CommonPrefixLen(f, t)
      ups == [i \in 1..(Len(f) - n) |-> ".."]
  IN [sep |-> Sep(platform), segs |-> ups \o SubSeq(t, n + 1, Len(t))]

\* path.dirname(p) for a workspace-relative file path
dirname(p) ==
  IF Len(p.segs) <= 1 THEN [p EXCEPT !.segs = <<".">>]
  ELSE [p EXCEPT !.segs = SubSeq(p.segs, 1, Len(p.segs) - 1)]

\* path.startsWith('..')
StartsWithDotDot(p) ==
  /\ p.segs # <<>>
  /\ Len(p.segs[1]) >= 2
  /\ SubSeq(p.segs[1], 1, 2) = ".."

\* a path-valued property is truthy when present and not ''
TruthyPath(o, k) == k \in DOMAIN o /\ o[k].segs # <<>>

-----------------------------------------------------------------------------
(* The Cypress plugin: pure functions *)

NX_PLUGIN_OPTIONS == "__NxPluginOptions__"

\* a thrown TypeError (property read of undefined, path.join of a non-string)
Threw == [threw |-> "TypeError"]
Ok(v) == [ok |-> v]
IsThrow(r) == "threw" \in DOMAIN r

\* o.k ??= v
NullishAssign(o, k, v) == IF Has(o, k) THEN o ELSE Put(o, k, v)

\* function normalizeOptions(options): the object it returns
normalizeOptions(o) ==
  NullishAssign(
    NullishAssign(
      NullishAssign(IF o = Undefined \/ o = Null THEN EmptyObj ELSE o,
                    "targetName", "e2e"),
      "componentTestingTargetName", "component-test"),
    "ciTargetName", "e2e-ci")

\* normalizeOptions assigns the defaults on the object it was handed: this is
\* the caller's object after the call (a fresh object is made only for a
\* nullish argument, which the caller never sees)
CallerObjectAfterNormalize(o) ==
  IF o = Undefined \/ o = Null THEN o ELSE normalizeOptions(o)

\* function getInputs(namedInputs)
getInputs(namedInputs) ==
  (IF Has(namedInputs, "production")
     THEN <<"default", "^production">>
     ELSE <<"default", "^default">>)
  \o << [externalDependencies |-> <<"cypress">>] >>

\* getOutputs' inner function getOutput(path)
getOutput(projectRoot, path, platform) ==
  PathString(
    IF StartsWithDotDot(path)
      THEN joinPathFragments3(P(<<"{workspaceRoot}">>), projectRoot, path, platform)
      ELSE joinPathFragments2(P(<<"{projectRoot}">>), path, platform))

FolderOutputs(o, projectRoot, platform) ==
  (IF TruthyPath(o, "videosFolder")
     THEN <<getOutput(projectRoot, o.videosFolder, platform)>> ELSE <<>>)
  \o
  (IF TruthyPath(o, "screenshotsFolder")
     THEN <<getOutput(projectRoot, o.screenshotsFolder, platform)>> ELSE <<>>)

\* function getOutputs(projectRoot, cypressConfig, testingType): reading a
\* property of an undefined e2e / component entry throws
getOutputs(projectRoot, cypressConfig, testingType, platform) ==
  LET top == FolderOutputs(cypressConfig, projectRoot, platform)
      sub == Get(cypressConfig, testingType)
  IN IF sub = Undefined THEN Threw
     ELSE Ok(top \o FolderOutputs(sub, projectRoot, platform))

\* lines 189-193: { ...e2e?.[NX_PLUGIN_OPTIONS], ...env, ...e2e?.env }
PluginPresetOptions(cypressConfig) ==
  LET e2e == Get(cypressConfig, "e2e")
      fromPreset == IF e2e = Undefined THEN Undefined ELSE Get(e2e, NX_PLUGIN_OPTIONS)
      fromE2eEnv == IF e2e = Undefined THEN Undefined ELSE Get(e2e, "env")
  IN Spread(Spread(fromPreset, Get(cypressConfig, "env")), fromE2eEnv)

\* lines 212-214: if (webServerCommands?.default) delete webServerCommands.default
DropDefault(webServerCommands) ==
  IF webServerCommands # Undefined /\ TruthyStr(webServerCommands, "default")
    THEN Delete(webServerCommands, "default")
    ELSE webServerCommands

\* lines 216-225: one configuration per remaining entry
WithConfigurations(target, webServerCommands) ==
  LET wsc == SpreadOf(webServerCommands)
  IN IF Cardinality(DOMAIN wsc) > 0
       THEN Put(target, "configurations",
                [k \in DOMAIN wsc |->
                   [command |-> "cypress run --env webServerCommand=\""
                                  \o wsc[k] \o "\""]])
       ELSE target

\* lines 204-210
PrimaryTarget(projectRoot, namedInputs, outputs) ==
  [command |-> "cypress run",
   options |-> [cwd |-> PathString(projectRoot)],
   cache |-> TRUE,
   inputs |-> getInputs(namedInputs),
   outputs |-> outputs]

\* lines 229-231
SpecPatterns(e2e, projectRoot, platform) ==
  IF ~Has(e2e, "specPattern") THEN Threw
  ELSE IF IsArray(e2e.specPattern)
    THEN Ok([i \in 1..Len(e2e.specPattern.arr) |->
               join(projectRoot, e2e.specPattern.arr[i], platform)])
    ELSE Ok(<<join(projectRoot, e2e.specPattern.str, platform)>>)

\* lines 233-238: a falsy excludeSpecPattern is passed through as it is
ExcludeSpecPatterns(e2e, projectRoot, platform) ==
  IF ~Has(e2e, "excludeSpecPattern") THEN Undefined
  ELSE IF IsArray(e2e.excludeSpecPattern)
    THEN Arr([i \in 1..Len(e2e.excludeSpecPattern.arr) |->
                join(projectRoot, e2e.excludeSpecPattern.arr[i], platform)])
    ELSE IF e2e.excludeSpecPattern.str.segs = <<>> THEN e2e.excludeSpecPattern
    ELSE Arr(<<join(projectRoot, e2e.excludeSpecPattern.str, platform)>>)

\* lines 249-250: the shard's name
ShardName(ciTargetName, projectRoot, file, platform) ==
  ciTargetName \o "--"
    \o PathString(normalizePath(relative(projectRoot, file, platform)))

\* a loop body that puts the new dependency first (unshift for push)
ShardStep_Unshift(acc, file, ctx) ==
  LET targetName == ctx.options.ciTargetName \o "--"
        \o PathString(normalizePath(relative(ctx.projectRoot, file, ctx.platform)))
  IN [targets |->
        Put(acc.targets, targetName,
            [outputs |-> ctx.outputs,
             inputs |-> ctx.inputs,
             cache |-> TRUE,
             command |-> "cypress run --env webServerCommand=\""
                           \o ctx.ciWebServerCommand \o "\" --spec "
                           \o PathString(normalizePath(
                                relative(ctx.projectRoot, file, ctx.platform))),
             options |-> [cwd |-> PathString(ctx.projectRoot)]]),
      ciTestingGroup |-> Append(acc.ciTestingGroup, targetName),
      dependsOn |-> <<[target |-> targetName, projects |-> "self",
                       params |-> "forward"]>> \o acc.dependsOn]

\* lines 248-267: one iteration of the loop over specFiles
ShardStep(acc, file, ctx) ==
  LET relativeSpecFilePath ==
        PathString(normalizePath(relative(ctx.projectRoot, file, ctx.platform)))
      targetName == ShardName(ctx.options.ciTargetName, ctx.projectRoot, file,
                              ctx.platform)
  IN [targets |->
        Put(acc.targets, targetName,
            [outputs |-> ctx.outputs,
             inputs |-> ctx.inputs,
             cache |-> TRUE,
             command |-> "cypress run --env webServerCommand=\""
                           \o ctx.ciWebServerCommand \o "\" --spec "
                           \o relativeSpecFilePath,
             options |-> [cwd |-> PathString(ctx.projectRoot)]]),
      ciTestingGroup |-> Append(acc.ciTestingGroup, targetName),
      dependsOn |-> Append(acc.dependsOn,
                           [target |-> targetName, projects |-> "self",
                            params |-> "forward"])]

RECURSIVE ShardLoop(_, _, _)
ShardLoop(acc, specFiles, ctx) ==
  IF specFiles = <<>> THEN acc
  ELSE ShardLoop(ShardStep(acc, Head(specFiles), ctx), Tail(specFiles), ctx)

\* lines 268-277: the umbrella target and its entry in the group
Umbrella(acc, ctx) ==
  [targets |->
     Put(acc.targets, ctx.options.ciTargetName,
         [executor |-> "nx:noop",
          cache |-> TRUE,
          inputs |-> ctx.inputs,
          outputs |-> ctx.outputs,
          dependsOn |-> acc.dependsOn]),
   ciTestingGroup |-> Append(acc.ciTestingGroup, ctx.options.ciTargetName)]

\* lines 245-278: the loop over the enumerated files and the umbrella
FanOutOver(targets, specFiles, ctx) ==
  Umbrella(ShardLoop([targets |-> targets, ciTestingGroup |-> <<>>,
                      dependsOn |-> <<>>], specFiles, ctx), ctx)

\* lines 227-278: the CI fan-out, entered when ciWebServerCommand is truthy
CiFanOut(targets, cypressConfig, projectRoot, opts, namedInputs, specFiles, platform, ciWebServerCommand, outputs) ==
  IF IsThrow(SpecPatterns(cypressConfig.e2e, projectRoot, platform)) THEN Threw
  ELSE FanOutOver(targets, specFiles,
                  [projectRoot |-> projectRoot, options |-> opts,
                   platform |-> platform,
                   ciWebServerCommand |-> ciWebServerCommand,
                   inputs |-> getInputs(namedInputs), outputs |-> outputs])

\* lines 204-278, once the outputs of the primary target are known
E2eTargets(cypressConfig, projectRoot, opts, namedInputs, specFiles, platform, ppo, outs) ==
  IF IsThrow(outs) THEN Threw
  ELSE IF TruthyStr(ppo, "ciWebServerCommand")
    THEN CiFanOut(Put(EmptyObj, opts.targetName,
                      WithConfigurations(
                        PrimaryTarget(projectRoot, namedInputs, outs.ok),
                        DropDefault(Get(ppo, "webServerCommands")))),
                  cypressConfig, projectRoot, opts, namedInputs, specFiles,
                  platform, ppo.ciWebServerCommand, outs.ok)
    ELSE [targets |->
            Put(EmptyObj, opts.targetName,
                WithConfigurations(
                  PrimaryTarget(projectRoot, namedInputs, outs.ok),
                  DropDefault(Get(ppo, "webServerCommands")))),
          ciTestingGroup |-> <<>>]

\* lines 203-279: the branch for a configuration with an 'e2e' key
E2eBranch(cypressConfig, projectRoot, opts, namedInputs, specFiles, platform) ==
  E2eTargets(cypressConfig, projectRoot, opts, namedInputs, specFiles, platform,
             PluginPresetOptions(cypressConfig),
             getOutputs(projectRoot, cypressConfig, "e2e", platform))

\* lines 283-289: the component target, once its outputs are known
ComponentTarget(acc, projectRoot, opts, namedInputs, outs) ==
  IF IsThrow(outs) THEN Threw
  ELSE [acc EXCEPT !.targets =
          Put(acc.targets, opts.componentTestingTargetName,
              [command |-> "cypress run --component",
               options |-> [cwd |-> PathString(projectRoot)],
               cache |-> TRUE,
               inputs |-> getInputs(namedInputs),
               outputs |-> outs.ok])]

\* lines 281-290: targets[componentTestingTargetName] ??= { ... }; the right
\* hand side is evaluated only when the name is not taken yet
ComponentBranch(acc, cypressConfig, projectRoot, opts, namedInputs, platform) ==
  IF Has(acc.targets, opts.componentTestingTargetName) THEN acc
  ELSE ComponentTarget(acc, projectRoot, opts, namedInputs,
                       getOutputs(projectRoot, cypressConfig, "component",
                                  platform))

\* lines 292-294: an empty group becomes null
GroupOrNull(ciTestingGroup) ==
  IF Len(ciTestingGroup) = 0 THEN Null ELSE Arr(ciTestingGroup)

\* lines 292-296
ReturnTargets(acc) ==
  IF IsThrow(acc) THEN Threw
  ELSE [targets |-> acc.targets,
        ciTestingGroup |-> GroupOrNull(acc.ciTestingGroup)]

\* lines 281-296, after the e2e branch
AfterE2e(acc, cypressConfig, projectRoot, opts, namedInputs, platform) ==
  IF IsThrow(acc) THEN Threw
  ELSE IF Has(cypressConfig, "component")
    THEN ReturnTargets(ComponentBranch(acc, cypressConfig, projectRoot, opts,
                                       namedInputs, platform))
    ELSE ReturnTargets(acc)

\* async function buildCypressTargets: what it returns, or Threw.
\* specFiles is what globWithWorkspaceContext returns when it is called.
buildCypressTargets(cypressConfig, projectRoot, opts, namedInputs, specFiles, platform) ==
  AfterE2e(IF Has(cypressConfig, "e2e")
             THEN E2eBranch(cypressConfig, projectRoot, opts, namedInputs,
                            specFiles, platform)
             ELSE [targets |-> EmptyObj, ciTestingGroup |-> <<>>],
           cypressConfig, projectRoot, opts, namedInputs, platform)

-----------------------------------------------------------------------------
(* The Cypress plugin: bounded inputs *)

\* the longest list of files the glob enumeration returns
MaxSpecFiles == 2
\* createNodes invocations per process
MaxCalls == 3

Platforms == {"posix", "win32"}

\* files of the workspace a spec pattern can match
SpecFilePaths ==
  {P(<<"apps", "web", "src", "a.cy.ts">>), P(<<"apps", "web", "src", "b.cy.ts">>),
   P(<<"apps", "shared", "c.cy.ts">>)}

\* globWithWorkspaceContext returns distinct paths, in its own order
SpecFileLists ==
  UNION {{f \in [1..n -> SpecFilePaths] :
            \A i, j \in 1..n : i # j => f[i] # f[j]} : n \in 0..MaxSpecFiles}

\* the options object a caller registers the plugin with
OptionChoices ==
  {Undefined,
   EmptyObj,
   [targetName |-> "test"],
   [targetName |-> "e2e", componentTestingTargetName |-> "ct",
    ciTargetName |-> "ci"],
   [targetName |-> "e2e", componentTestingTargetName |-> "e2e",
    ciTargetName |-> "e2e"],
   [targetName |-> "e2e-ci--src/a.cy.ts",
    componentTestingTargetName |-> "e2e-ci"]}

\* webServerCommands of the plugin preset options
NoValue == [absent |-> TRUE]
WebServerCommandChoices ==
  {NoValue,
   EmptyObj,
   [default |-> "nx run web:serve"],
   [default |-> "", production |-> "nx run web:serve:production"],
   [default |-> "nx run web:serve",
    production |-> "nx run web:serve:production",
    ci |-> "nx run web:serve-static"]}

CiWebServerCommandChoices == {NoValue, [v |-> ""], [v |-> "nx run web:serve-static"]}

PresetOptions(wsc, ci) ==
  LET a == IF wsc = NoValue THEN EmptyObj ELSE [webServerCommands |-> wsc]
  IN IF ci = NoValue THEN a ELSE Put(a, "ciWebServerCommand", ci.v)

\* the rest of an e2e entry
E2eShapes ==
  {[specPattern |-> Str(P(<<"**", "*.cy.ts">>))],
   [specPattern |-> Arr(<<P(<<"src", "**", "*.cy.ts">>), P(<<"e2e", "*.cy.ts">>)>>),
    excludeSpecPattern |-> Str(P(<<"**", "skip", "*">>)),
    videosFolder |-> P(<<"..", "dist", "videos">>)],
   [excludeSpecPattern |-> Arr(<<P(<<"**", "skip", "*">>), P(<<"**", "wip", "*">>)>>),
    screenshotsFolder |-> P(<<"shots">>)]}

\* where the configuration carries the plugin preset options
Placements == {"e2e.env", "env", "preset"}

ConfigWithE2e(shape, preset, placement) ==
  IF placement = "env"
    THEN [e2e |-> shape, env |-> preset,
          screenshotsFolder |-> P(<<"dist", "shots">>)]
  ELSE IF placement = "preset"
    THEN [e2e |-> Put(shape, NX_PLUGIN_OPTIONS, preset)]
  ELSE [e2e |-> Put(shape, "env", preset)]

E2eConfigs ==
  {ConfigWithE2e(shape, PresetOptions(wsc, ci), placement) :
     shape \in E2eShapes, wsc \in WebServerCommandChoices,
     ci \in CiWebServerCommandChoices, placement \in Placements}

ComponentChoices == {NoValue, Undefined, [videosFolder |-> P(<<"videos">>)]}

WithComponent(cfg, c) == IF c = NoValue THEN cfg ELSE Put(cfg, "component", c)

\* the objects loadConfigFile can return
CypressConfigs ==
  {WithComponent(cfg, c) :
     cfg \in E2eConfigs \cup {EmptyObj, [e2e |-> Undefined]},
     c \in ComponentChoices}

NamedInputChoices ==
  {[default |-> "{projectRoot}/**/*"],
   [default |-> "{projectRoot}/**/*", production |-> "default"]}

\* does this configuration make buildCypressTargets enumerate spec files
EnumeratesSpecFiles(cfg) ==
  /\ Has(cfg, "e2e")
  /\ cfg.e2e # Undefined
  /\ TruthyStr(PluginPresetOptions(cfg), "ciWebServerCommand")
  /\ Has(cfg.e2e, "specPattern")

ProjectFiles == {"cypress.config.ts", "project.json", "src"}

\* one createNodes invocation: the matched file, the directory listing, what
\* the collaborators return (configuration loader, named inputs, glob)
Invocation(path, siblings, cfg, named, files, platform) ==
  [configFilePath |-> path, siblingFiles |-> siblings, cypressConfig |-> cfg,
   namedInputs |-> named, specFiles |-> files, platform |-> platform]

Invocations ==
  {Invocation(P(<<"apps", "web", "cypress.config.ts">>), ProjectFiles, cfg, named, files,
              platform) :
     cfg \in CypressConfigs, named \in NamedInputChoices,
     files \in SpecFileLists, platform \in Platforms}

\* the glob result is part of an invocation only when the glob is called
BuildInvocations ==
  {i \in Invocations : ~EnumeratesSpecFiles(i.cypressConfig) => i.specFiles = <<>>}
  \cup
  {Invocation(P(<<"libs", "ui", "cypress.config.ts">>),
              {"cypress.config.ts", "README.md"},
              EmptyObj, [default |-> "{projectRoot}/**/*"], <<>>, platform) :
     platform \in Platforms}

-----------------------------------------------------------------------------
(* The Cypress plugin: the cache file and the plugin's operations *)

MissingFile == [kind |-> "missing"]
MalformedFile == [kind |-> "malformed"]

\* JSON.stringify drops the properties whose value is undefined; null stays
ToJson(o) == [k \in {x \in DOMAIN o : o[x] # Undefined} |-> o[k]]

\* writeJsonFile(cachePath, targets): the file after the write
WriteJsonFile(targets) ==
  [kind |-> "json", value |-> [h \in DOMAIN targets |-> ToJson(targets[h])]]

\* readJsonFile(cachePath): the parsed value; a parse error is thrown
ReadJsonFile(file) ==
  IF file.kind = "json" THEN Ok(file.value) ELSE [threw |-> "JSONParseError"]

\* line 57: existsSync(cachePath) ? readTargetsCache() : {}
ReadTargetsCacheAtLoad(file) ==
  IF file.kind # "missing" THEN ReadJsonFile(file) ELSE Ok(EmptyObj)

\* calculateHashForCreateNodes: a digest of the project root, the normalized
\* options and the content of the files it covers (collisions are not modelled)
calculateHashForCreateNodes(projectRoot, opts, inv) ==
  [projectRoot |-> projectRoot, options |-> opts,
   files |-> <<inv.cypressConfig, inv.specFiles, inv.namedInputs>>]

\* line 93: targetsCache[hash] ? targetsCache[hash] : await buildCypressTargets(..)
CacheHit(cache, hash) == hash \in DOMAIN cache

\* a flush of the map that was read at load instead of the accumulator
FlushedTargets_ReadMap == targetsCache

\* line 70: the map createDependencies hands to writeTargetsToCache
FlushedTargets == calculatedTargets

NotCalled == [notCalled |-> TRUE]
NoResult == [build |-> NotCalled, nodes |-> NotCalled]

\* lines 104-122: the value createNodes returns for a project
ProjectNodes(projectRoot, targets, ciTestingGroup) ==
  LET metadata ==
        IF ciTestingGroup # Null /\ ciTestingGroup # Undefined
          THEN [technologies |-> <<"cypress">>,
                targetGroups |->
                  Put(EmptyObj, PathString(projectRoot) \o ":e2e-ci", ciTestingGroup)]
          ELSE [technologies |-> <<"cypress">>]
  IN [projects |->
        Put(EmptyObj, PathString(projectRoot),
            [projectType |-> "application", targets |-> targets,
             metadata |-> metadata])]

\* module load: lines 56-59
LoadPlugin ==
  /\ proc = "down"
  /\ LET read == ReadTargetsCacheAtLoad(store)
     IN IF IsThrow(read)
          THEN /\ proc' = "failed"
               /\ targetsCache' = EmptyObj
          ELSE /\ proc' = "up"
               /\ targetsCache' = read.ok
  /\ calculatedTargets' = EmptyObj
  /\ synth' = EmptyObj
  /\ resolved' = EmptyObj
  /\ calls' = 0
  /\ lastOp' = "load"
  /\ UNCHANGED <<store, callerOptions, passedOptions, options, input, result, fs, eb>>

\* lines 102-122: the entry is recorded and the project returned
RecordAndReturn(projectRoot, hash, hit, built, entry) ==
  /\ result' = [build |-> built,
                nodes |-> ProjectNodes(projectRoot, entry.targets,
                                       entry.ciTestingGroup)]
  /\ calculatedTargets' = Put(calculatedTargets, hash, entry)
  /\ resolved' = Put(resolved, hash, entry)
  /\ synth' = IF hit THEN synth
              ELSE Put(synth, hash,
                       (IF Has(synth, hash) THEN synth[hash] ELSE 0) + 1)

\* line 93: const { targets, ciTestingGroup } = ...
Destructure(found) ==
  [targets |-> Get(found, "targets"),
   ciTestingGroup |-> Get(found, "ciTestingGroup")]

\* lines 95-100: a miss; a throw of buildCypressTargets leaves createNodes
Synthesized(projectRoot, hash, built) ==
  IF IsThrow(built)
    THEN /\ result' = [build |-> built, nodes |-> built]
         /\ UNCHANGED <<calculatedTargets, synth, resolved>>
    ELSE RecordAndReturn(projectRoot, hash, FALSE, built, Destructure(built))

\* lines 93-102
ResolveTargets(inv, opts, projectRoot, hash) ==
  IF CacheHit(targetsCache, hash)
    THEN RecordAndReturn(projectRoot, hash, TRUE, NotCalled,
                         Destructure(targetsCache[hash]))
    ELSE Synthesized(projectRoot, hash,
                     buildCypressTargets(inv.cypressConfig, projectRoot, opts,
                                         inv.namedInputs, inv.specFiles,
                                         inv.platform))

\* lines 78-102, with the normalized options
CreateNodesWith(inv, opts, projectRoot) ==
  IF "package.json" \notin inv.siblingFiles
     /\ "project.json" \notin inv.siblingFiles
    THEN /\ result' = [build |-> NotCalled, nodes |-> EmptyObj]
         /\ UNCHANGED <<calculatedTargets, synth, resolved>>
    ELSE ResolveTargets(inv, opts, projectRoot,
                        calculateHashForCreateNodes(projectRoot, opts, inv))

\* the createNodes callback, lines 76-123, called with options object opt
CreateNodes(inv, opt) ==
  /\ proc = "up"
  /\ calls < MaxCalls
  /\ calls' = calls + 1
  /\ lastOp' = "createNodes"
  /\ passedOptions' = opt
  /\ callerOptions' = CallerObjectAfterNormalize(opt)
  /\ options' = normalizeOptions(opt)
  /\ input' = inv
  /\ CreateNodesWith(inv, normalizeOptions(opt), dirname(inv.configFilePath))
  /\ UNCHANGED <<proc, store, targetsCache, fs, eb>>

\* createDependencies, lines 69-72
CreateDependencies ==
  /\ proc = "up"
  /\ store' = WriteJsonFile(FlushedTargets)
  /\ lastOp' = "createDependencies"
  /\ UNCHANGED <<callerOptions, passedOptions, options, input, result, proc,
                 targetsCache, calculatedTargets, synth, resolved, calls, fs, eb>>

\* the process ends; the module's maps die with it
ExitProcess ==
  /\ proc \in {"up", "failed"}
  /\ proc' = "down"
  /\ targetsCache' = EmptyObj
  /\ calculatedTargets' = EmptyObj
  /\ synth' = EmptyObj
  /\ resolved' = EmptyObj
  /\ calls' = 0
  /\ lastOp' = "exit"
  /\ UNCHANGED <<store, callerOptions, passedOptions, options, input, result, fs, eb>>

\* the environment: the cache directory is cleared
ClearStore ==
  /\ store.kind # "missing"
  /\ store' = MissingFile
  /\ lastOp' = "clear"
  /\ UNCHANGED <<callerOptions, passedOptions, options, input, result, proc,
                 targetsCache, calculatedTargets, synth, resolved, calls, fs, eb>>

\* the environment: the cache file is left truncated or overwritten with
\* something that is not JSON
CorruptStore ==
  /\ store.kind = "json"
  /\ store' = MalformedFile
  /\ lastOp' = "corrupt"
  /\ UNCHANGED <<callerOptions, passedOptions, options, input, result, proc,
                 targetsCache, calculatedTargets, synth, resolved, calls, fs, eb>>

FsIdle == [pc |-> "none"]

\* the expo build executor is not part of the run
EbIdle == [pc |-> "none"]

\* ---- Spec: one createNodes invocation on a freshly loaded plugin, over all
\* the bounded configurations, options and enumeration results
Init ==
  /\ lastOp = "init"
  /\ input \in BuildInvocations
  /\ callerOptions \in OptionChoices
  /\ passedOptions = callerOptions
  /\ options = Undefined
  /\ result = NoResult
  /\ proc = "up"
  /\ store = MissingFile
  /\ targetsCache = EmptyObj
  /\ calculatedTargets = EmptyObj
  /\ synth = EmptyObj
  /\ resolved = EmptyObj
  /\ calls = 0
  /\ fs = FsIdle
  /\ eb = EbIdle

InvokeCreateNodes == lastOp = "init" /\ CreateNodes(input, callerOptions)

Next == InvokeCreateNodes

Spec == Init /\ [][Next]_vars

-----------------------------------------------------------------------------
(* Claims about one createNodes invocation (specification Spec) *)

\* buildCypressTargets was called by the last invocation and returned
Built ==
  /\ lastOp = "createNodes"
  /\ result.build # NotCalled
  /\ ~IsThrow(result.build)

\* buildCypressTargets was called by the last invocation and threw
BuildThrew ==
  /\ lastOp = "createNodes"
  /\ IsThrow(result.build)

DeclaresE2e == Has(input.cypressConfig, "e2e")
DeclaresComponent == Has(input.cypressConfig, "component")

\* a ciWebServerCommand is set in the plugin preset options
CiCommandSet ==
  TruthyStr(PluginPresetOptions(input.cypressConfig), "ciWebServerCommand")

\* the shard name the claim prescribes for the i-th enumerated file
ExpectedShardName(i) ==
  options.ciTargetName \o "--"
    \o PathString(normalizePath(relative(dirname(input.configFilePath),
                                         input.specFiles[i], input.platform)))

ExpectedShardNames == {ExpectedShardName(i) : i \in 1..Len(input.specFiles)}

\* C1: with e2e declared and a ciWebServerCommand set, an enumeration of
\* N >= 1 distinct files yields exactly N shard targets, named
\* ciTargetName--<relative path>, and exactly one umbrella target named
\* ciTargetName, run by nx:noop, whose dependsOn lists the N shard names once
\* each, in enumeration order, with projects 'self' and params 'forward'.
C1_FanOutComplete ==
  (Built /\ DeclaresE2e /\ CiCommandSet /\ Len(input.specFiles) >= 1) =>
    LET T == result.build.targets
        N == Len(input.specFiles)
        umbrella == T[options.ciTargetName]
    IN /\ Cardinality(ExpectedShardNames) = N
       /\ ExpectedShardNames \subseteq DOMAIN T
       /\ \A k \in ExpectedShardNames :
            /\ ~Has(T[k], "executor")
            /\ ~Has(T[k], "dependsOn")
            /\ Has(T[k], "command")
       /\ DOMAIN T \subseteq
            ExpectedShardNames \cup {options.targetName, options.ciTargetName,
                                     options.componentTestingTargetName}
       /\ {k \in DOMAIN T : Has(T[k], "executor")} = {options.ciTargetName}
       /\ options.ciTargetName \notin ExpectedShardNames
       /\ umbrella.executor = "nx:noop"
       /\ Len(umbrella.dependsOn) = N
       /\ \A i \in 1..N :
            umbrella.dependsOn[i] =
              [target |-> ExpectedShardName(i), projects |-> "self",
               params |-> "forward"]

\* C1 witness: the fan-out ran over two files, one of them outside the
\* project root
C1_Witness ==
  /\ Built /\ DeclaresE2e /\ CiCommandSet
  /\ Len(input.specFiles) = 2
  /\ Cardinality(DOMAIN result.build.targets) = 4
  /\ "e2e-ci--../shared/c.cy.ts" \in DOMAIN result.build.targets

\* C2 (as claimed): whenever the enumeration yields no file, the
\* ciTestingGroup that buildCypressTargets returns is null.
C2_ZeroMatchAbsent ==
  (Built /\ input.specFiles = <<>>) => result.build.ciTestingGroup = Null

\* the e2e part of the configuration is one the e2e branch can process
E2ePartWellFormed ==
  DeclaresE2e =>
    /\ input.cypressConfig.e2e # Undefined
    /\ CiCommandSet => Has(input.cypressConfig.e2e, "specPattern")

\* C3 (as claimed): the target named targetName is emitted if e2e is
\* declared, the target named componentTestingTargetName if component is
\* declared with an entry; neither declared gives an empty map; a component
\* entry that is undefined gives no error and no component-test target.
C3_ModesToTargets ==
  /\ Built =>
       LET T == result.build.targets
       IN /\ DeclaresE2e => options.targetName \in DOMAIN T
          /\ (DeclaresComponent /\ input.cypressConfig.component # Undefined)
               => options.componentTestingTargetName \in DOMAIN T
          /\ (~DeclaresE2e /\ ~DeclaresComponent) => T = EmptyObj
  /\ (/\ lastOp = "createNodes"
      /\ result.build # NotCalled
      /\ DeclaresComponent
      /\ input.cypressConfig.component = Undefined
      /\ E2ePartWellFormed)
       => /\ ~IsThrow(result.build)
          /\ \A k \in DOMAIN result.build.targets :
               ~(/\ Has(result.build.targets[k], "command")
                 /\ result.build.targets[k].command = "cypress run --component")

\* C6 (as claimed): normalizeOptions fills the three names exactly when they
\* are absent, keeps the provided ones, and leaves the caller's object as it
\* was passed.
C6_NormalizePure ==
  lastOp = "createNodes" =>
    LET given == SpreadOf(passedOptions)
        Default(k) == IF k = "targetName" THEN "e2e"
                      ELSE IF k = "componentTestingTargetName"
                        THEN "component-test"
                      ELSE "e2e-ci"
    IN /\ \A k \in {"targetName", "componentTestingTargetName", "ciTargetName"} :
            options[k] = IF Has(given, k) THEN given[k] ELSE Default(k)
       /\ callerOptions = passedOptions

\* the primary target is still the one under targetName in the result
PrimarySurvives ==
  /\ options.targetName # options.ciTargetName
  /\ options.targetName \notin ExpectedShardNames

\* C8 (as claimed): with e2e declared, the primary target has no
\* configuration for the key 'default' and exactly one per other key of
\* webServerCommands, whose command passes that key's server command; with no
\* other key it has no configurations at all.
C8_DefaultSuppressed ==
  (Built /\ DeclaresE2e /\ PrimarySurvives) =>
    LET wsc == SpreadOf(Get(PluginPresetOptions(input.cypressConfig),
                            "webServerCommands"))
        others == DOMAIN wsc \ {"default"}
        primary == result.build.targets[options.targetName]
    IN IF others = {}
         THEN ~Has(primary, "configurations")
         ELSE /\ Has(primary, "configurations")
              /\ DOMAIN primary.configurations = others
              /\ \A k \in others :
                   primary.configurations[k] =
                     [command |-> "cypress run --env webServerCommand=\""
                                    \o wsc[k] \o "\""]

-----------------------------------------------------------------------------
(* The targets cache over several processes (specification SpecCache) *)

NoInput == [none |-> TRUE]

WebConfigFile == P(<<"apps", "web", "cypress.config.ts">>)

\* the workspace as the plugin can find it at an invocation: a project with
\* a CI fan-out over two spec files, the same project after an edit of its
\* configuration, a configuration that makes synthesis throw, and a directory
\* that is no project
CacheInvocations ==
  {Invocation(WebConfigFile, ProjectFiles,
              [e2e |-> [specPattern |-> Str(P(<<"**", "*.cy.ts">>)),
                        env |-> [ciWebServerCommand |-> "nx run web:serve-static"]]],
              [default |-> "{projectRoot}/**/*"],
              <<P(<<"apps", "web", "src", "a.cy.ts">>),
                P(<<"apps", "web", "src", "b.cy.ts">>)>>, "posix"),
   Invocation(WebConfigFile, ProjectFiles,
              [e2e |-> [specPattern |-> Str(P(<<"**", "*.cy.ts">>))],
               component |-> [videosFolder |-> P(<<"videos">>)]],
              [default |-> "{projectRoot}/**/*"], <<>>, "posix"),
   Invocation(WebConfigFile, ProjectFiles,
              [component |-> Undefined],
              [default |-> "{projectRoot}/**/*"], <<>>, "posix"),
   Invocation(P(<<"libs", "ui", "cypress.config.ts">>),
              {"cypress.config.ts", "README.md"},
              EmptyObj, [default |-> "{projectRoot}/**/*"], <<>>, "posix")}

CacheOptionChoices == {Undefined, [targetName |-> "test"]}

InitCache ==
  /\ lastOp = "init"
  /\ input = NoInput
  /\ callerOptions = Undefined
  /\ passedOptions = Undefined
  /\ options = Undefined
  /\ result = NoResult
  /\ proc = "down"
  /\ store = MissingFile
  /\ targetsCache = EmptyObj
  /\ calculatedTargets = EmptyObj
  /\ synth = EmptyObj
  /\ resolved = EmptyObj
  /\ calls = 0
  /\ fs = FsIdle
  /\ eb = EbIdle

HostCallsCreateNodes ==
  \E inv \in CacheInvocations, opt \in CacheOptionChoices : CreateNodes(inv, opt)

NextCache ==
  \/ LoadPlugin
  \/ HostCallsCreateNodes
  \/ CreateDependencies
  \/ ExitProcess
  \/ ClearStore
  \/ CorruptStore

SpecCache == InitCache /\ [][NextCache]_vars

\* C4 (as claimed): in one process synthesis completes at most once per
\* hash, and never for a hash that the persisted cache holds.
C4_AtMostOncePerHash ==
  \A h \in DOMAIN synth :
    /\ synth[h] <= 1
    /\ h \notin DOMAIN targetsCache

\* C5 (as claimed): the read of the cache file at load never fails; a missing
\* or malformed file gives an empty cache.
C5_CacheReadFailsOpen ==
  lastOp = "load" =>
    /\ proc = "up"
    /\ store.kind # "json" => targetsCache = EmptyObj

\* C7: the cache file changes only when createDependencies writes it (or the
\* environment clears or damages it); targetsCache changes only when the
\* module is loaded or dies, and a load of a well-formed file reads all of
\* it; a hit serves the entry that was read; and createDependencies leaves
\* in the file exactly one entry per hash createNodes resolved in this
\* process, hit or miss, an entry that was read from the file and hit being
\* written back unchanged.
C7_Step ==
  /\ store' # store => lastOp' \in {"createDependencies", "clear", "corrupt"}
  /\ targetsCache' # targetsCache => lastOp' \in {"load", "exit"}
  /\ (lastOp' = "load" /\ store.kind = "json") =>
       (proc' = "up" /\ targetsCache' = store.value)
  /\ (lastOp' = "createNodes" /\ calls' # calls) =>
       \A h \in DOMAIN resolved' :
         (h \in DOMAIN targetsCache /\ (h \notin DOMAIN resolved
                                         \/ resolved'[h] # resolved[h]))
           => resolved'[h] = targetsCache[h]
  /\ lastOp' = "createDependencies" =>
       /\ store'.kind = "json"
       /\ DOMAIN store'.value = DOMAIN resolved
       /\ \A h \in DOMAIN resolved :
            /\ store'.value[h] = ToJson(resolved[h])
            /\ h \in DOMAIN targetsCache => store'.value[h] = targetsCache[h]

C7_CachePersistence == [][C7_Step]_vars

\* C7 witness: an entry written by an earlier process was read at load, hit
\* by createNodes without a synthesis, and is in the file again after the
\* flush, next to an entry synthesized in this process
C7_Witness ==
  /\ proc = "up"
  /\ lastOp = "createDependencies"
  /\ store.kind = "json"
  /\ \E h \in DOMAIN targetsCache :
       /\ h \in DOMAIN resolved
       /\ h \notin DOMAIN synth
       /\ h \in DOMAIN store.value
       /\ store.value[h] = targetsCache[h]
  /\ \E h \in DOMAIN synth : h \in DOMAIN store.value

-----------------------------------------------------------------------------
(* The file-server executor (specification SpecServe).                     *)
(* JavaScript runs the executor and its callbacks on one thread: a callback *)
(* runs only while the executor is suspended at an await or a yield and no  *)
(* execFileSync is blocking the thread.  A signal without a listener ends   *)
(* the process at once, whatever the thread is doing.                       *)

\* file-change notifications the daemon sends in one run
MaxChanges == 2
\* SIGTERM signals the process receives in one run
MaxSignals == 2

ServeOptions ==
  [buildTarget : BOOLEAN, staticFilePath : BOOLEAN, watch : BOOLEAN,
   spa : BOOLEAN, hasOutputPath : BOOLEAN]

FsStart(o) ==
  [pc |-> "start", alive |-> TRUE, opts |-> o,
   running |-> FALSE, env |-> "unset", building |-> 0, handlerBuild |-> FALSE,
   watcher |-> "none", serve |-> "none", listeners |-> FALSE,
   file404 |-> FALSE, pending |-> 0, changes |-> 0, signals |-> 0,
   kills |-> 0, disposes |-> 0, unlinks |-> 0, signalled |-> FALSE,
   lastDelivery |-> "none", started |-> 0, failures |-> 0,
   outcome |-> "none"]

\* the thread is free to run a callback
ThreadIdle(f) ==
  /\ f.alive
  /\ f.building = 0
  /\ f.pc \in {"detectPort", "serving", "threw", "returned"}

\* lines 150-157: run() entered; the build command starts when none is running
RunBegin(f) ==
  IF ~f.running
    THEN [f EXCEPT !.running = TRUE, !.env = "true",
                   !.building = f.building + 1, !.started = f.started + 1]
    ELSE f

\* a run() whose reset is at the end of the try block instead of in finally
RunEnd_NoFinally(f, ok) ==
  IF ok
    THEN [f EXCEPT !.env = "undefined", !.running = FALSE,
                   !.building = f.building - 1]
    ELSE [f EXCEPT !.building = f.building - 1, !.failures = f.failures + 1]

\* lines 158-170: execFileSync returned or threw; the finally block.
\* process.env stores the string 'undefined' for the value undefined.
RunEnd(f, ok) ==
  [f EXCEPT !.env = "undefined", !.running = FALSE,
            !.building = f.building - 1,
            !.failures = IF ok THEN f.failures ELSE f.failures + 1]

\* lines 75-107: getBuildTargetOutputPath returns or throws
OutputPathResolves(o) == o.staticFilePath \/ (o.buildTarget /\ o.hasOutputPath)

\* lines 184-208: output path, 404.html for a single-page app, up to the
\* await of detectPort
PrepareServe(f) ==
  IF ~OutputPathResolves(f.opts)
    THEN [f EXCEPT !.pc = "threw"]
    ELSE [f EXCEPT !.pc = "detectPort", !.file404 = f.opts.spa]

\* lines 220-229: processExitListener
processExitListener(f) ==
  [f EXCEPT !.serve = IF f.serve = "running" THEN "killed" ELSE f.serve,
            !.kills = f.kills + 1,
            !.watcher = IF f.watcher = "registered" THEN "disposed"
                        ELSE f.watcher,
            !.disposes = IF f.watcher # "none" THEN f.disposes + 1
                         ELSE f.disposes,
            !.file404 = IF f.opts.spa THEN FALSE ELSE f.file404,
            !.unlinks = IF f.opts.spa THEN f.unlinks + 1 ELSE f.unlinks]

\* lines 135-178: validation; with watch, the file watcher is registered
ServeStart ==
  /\ fs.pc = "start" /\ fs.alive
  /\ fs' = IF ~fs.opts.buildTarget /\ ~fs.opts.staticFilePath
             THEN [fs EXCEPT !.pc = "threw"]
           ELSE IF fs.opts.watch /\ ~fs.opts.buildTarget
             THEN [fs EXCEPT !.pc = "threw"]
           ELSE IF ~fs.opts.buildTarget
             THEN PrepareServe(fs)
           ELSE IF fs.opts.watch
             THEN [fs EXCEPT !.pc = "beforeRun", !.watcher = "registered"]
           ELSE [fs EXCEPT !.pc = "beforeRun"]
  /\ UNCHANGED <<pluginCallVars, cacheVars, eb>>

\* line 181: the initial run() reaches execFileSync
InitialRunBegin ==
  /\ fs.pc = "beforeRun" /\ fs.alive
  /\ fs' = [RunBegin(fs) EXCEPT !.pc = "initialBuild"]
  /\ UNCHANGED <<pluginCallVars, cacheVars, eb>>

\* lines 158-208: the initial build ends; a failure leaves the executor
InitialRunEnd ==
  /\ fs.pc = "initialBuild" /\ fs.alive
  /\ \E ok \in BOOLEAN :
       fs' = IF ok THEN PrepareServe(RunEnd(fs, ok))
             ELSE [RunEnd(fs, ok) EXCEPT !.pc = "threw"]
  /\ UNCHANGED <<pluginCallVars, cacheVars, eb>>

\* lines 211-245: http-server is forked, the exit listeners are registered,
\* the executor yields
ForkAndYield ==
  /\ fs.pc = "detectPort" /\ fs.alive
  /\ fs.building = 0
  /\ fs' = [fs EXCEPT !.pc = "serving", !.serve = "running",
                      !.listeners = TRUE]
  /\ UNCHANGED <<pluginCallVars, cacheVars, eb>>

\* the daemon reports changed files to a registered watcher
FileChanged ==
  /\ fs.alive
  /\ fs.watcher = "registered"
  /\ fs.changes < MaxChanges
  /\ fs' = [fs EXCEPT !.pending = fs.pending + 1, !.changes = fs.changes + 1]
  /\ UNCHANGED <<pluginCallVars, cacheVars, eb>>

\* lines 119-127: the watcher callback calls run()
DeliverChange ==
  /\ ThreadIdle(fs)
  /\ fs.watcher = "registered"
  /\ fs.pending > 0
  /\ fs' = [RunBegin(fs) EXCEPT
              !.pending = fs.pending - 1,
              !.handlerBuild = ~fs.running,
              !.lastDelivery = IF ~fs.running THEN "started" ELSE "skipped"]
  /\ UNCHANGED <<pluginCallVars, cacheVars, eb>>

\* the build started by the watcher callback ends
HandlerRunEnd ==
  /\ fs.alive
  /\ fs.handlerBuild
  /\ \E ok \in BOOLEAN :
       fs' = [RunEnd(fs, ok) EXCEPT !.handlerBuild = FALSE]
  /\ UNCHANGED <<pluginCallVars, cacheVars, eb>>

\* SIGTERM with the listener of line 231 installed: the listener runs and
\* the process lives on
SigtermHandled ==
  /\ ThreadIdle(fs)
  /\ fs.listeners
  /\ fs.signals < MaxSignals
  /\ fs' = [processExitListener(fs) EXCEPT !.signals = fs.signals + 1,
                                          !.signalled = TRUE]
  /\ UNCHANGED <<pluginCallVars, cacheVars, eb>>

\* SIGTERM with no listener installed: the default action ends the process
SigtermDefault ==
  /\ fs.alive
  /\ ~fs.listeners
  /\ fs' = [fs EXCEPT !.alive = FALSE, !.signalled = TRUE,
                      !.signals = fs.signals + 1]
  /\ UNCHANGED <<pluginCallVars, cacheVars, eb>>

\* the process exits: the 'exit' listeners run, if any was registered
ProcessExit ==
  /\ ThreadIdle(fs)
  /\ fs' = [(IF fs.listeners THEN processExitListener(fs) ELSE fs)
              EXCEPT !.alive = FALSE, !.signalled = TRUE]
  /\ UNCHANGED <<pluginCallVars, cacheVars, eb>>

\* lines 247-255: the http-server child exits and the executor returns
ServeExits ==
  /\ fs.alive
  /\ fs.pc = "serving"
  /\ fs.building = 0
  /\ fs.serve \in {"running", "killed"}
  /\ \E code \in {0, 1} :
       fs' = [fs EXCEPT !.serve = "exited", !.pc = "returned",
                        !.outcome = IF code = 0 THEN "success" ELSE "failure"]
  /\ UNCHANGED <<pluginCallVars, cacheVars, eb>>

InitServe ==
  /\ lastOp = "init"
  /\ input = NoInput
  /\ callerOptions = Undefined
  /\ passedOptions = Undefined
  /\ options = Undefined
  /\ result = NoResult
  /\ proc = "down"
  /\ store = MissingFile
  /\ targetsCache = EmptyObj
  /\ calculatedTargets = EmptyObj
  /\ synth = EmptyObj
  /\ resolved = EmptyObj
  /\ calls = 0
  /\ \E o \in ServeOptions : fs = FsStart(o)
  /\ eb = EbIdle

NextServe ==
  \/ ServeStart
  \/ InitialRunBegin
  \/ InitialRunEnd
  \/ ForkAndYield
  \/ FileChanged
  \/ DeliverChange
  \/ HandlerRunEnd
  \/ SigtermHandled
  \/ SigtermDefault
  \/ ProcessExit
  \/ ServeExits

SpecServe == InitServe /\ [][NextServe]_vars

\* C9 (as claimed): once the process has received 'exit' or SIGTERM, no
\* registered file watcher is left undisposed and no forked http-server is
\* left unkilled, whatever path the executor took, and the listener's
\* effects (kill, dispose, removal of 404.html) have been applied at most
\* once.
C9_CleanupOnExit ==
  /\ fs.signalled => (fs.watcher # "registered" /\ fs.serve # "running")
  /\ fs.kills <= 1
  /\ fs.disposes <= 1
  /\ fs.unlinks <= 1

\* C10: at most one build command is in progress; while none is in
\* progress running is false and NX_SERVE_STATIC_BUILD_RUNNING is not
\* 'true'; while one is in progress both are set; and no change
\* notification was ever turned away by a stale running flag.
C10_OneBuildAtATime ==
  /\ fs.building <= 1
  /\ fs.building = 0 => (~fs.running /\ fs.env # "true")
  /\ fs.building = 1 => (fs.running /\ fs.env = "true")
  /\ fs.lastDelivery # "skipped"

\* C10 witness: after a failed build, a change notification has started
\* another build, which is in progress
C10_Witness ==
  /\ fs.failures >= 1
  /\ fs.started >= 2
  /\ fs.lastDelivery = "started"
  /\ fs.handlerBuild
  /\ fs.building = 1

-----------------------------------------------------------------------------
(* The expo build executor (specification SpecBuild).                      *)
(* childProcess is one variable of the module, shared by every invocation  *)
(* of buildExecutor in the process.  An event handler and the continuation *)
(* of the await it settles run back to back on the one thread.             *)

\* buildExecutor invocations in one process
MaxInvocations == 2

Invocation0 ==
  [pc |-> "idle", child |-> 0, yielded |-> FALSE, threw |-> FALSE,
   killed |-> {}]

\* line 13: let childProcess (undefined is 0); no child forked yet
EbStart ==
  [pc |-> "build", childProcess |-> 0, children |-> <<>>,
   inv |-> [i \in 1..MaxInvocations |-> Invocation0],
   listeners |-> 0, signals |-> 0]

\* child.kill(): a signal is sent to a child that is running
KillChild(children, c) ==
  IF c = 0 THEN children
  ELSE [children EXCEPT ![c].state = IF @ = "running" THEN "killing" ELSE @]

\* lines 25-29: the finally block of invocation i, then the generator is done
Finally(e, i, threw) ==
  [e EXCEPT !.children = KillChild(e.children, e.childProcess),
            !.inv[i].pc = "done",
            !.inv[i].threw = threw,
            !.inv[i].killed = IF e.childProcess = 0 THEN @
                              ELSE @ \cup {e.childProcess}]

\* lines 23-24: resolve(code); the await returns and the generator yields
Resolved(e, i) ==
  IF e.inv[i].pc = "awaiting"
    THEN [e EXCEPT !.inv[i].pc = "yielded", !.inv[i].yielded = TRUE]
    ELSE e

\* lines 23-29: reject(..); the await throws, the finally block runs and the
\* rejection leaves the generator
Rejected(e, i) ==
  IF e.inv[i].pc = "awaiting" THEN Finally(e, i, TRUE) ELSE e

\* lines 19-49: buildExecutor is called and runs up to the await; runCliBuild
\* forks a child, stores it in childProcess and adds two process listeners
BuildStart ==
  /\ eb.pc = "build"
  /\ \E i \in 1..MaxInvocations :
       /\ eb.inv[i].pc = "idle"
       /\ \A j \in 1..(i - 1) : eb.inv[j].pc # "idle"
       /\ eb' = [eb EXCEPT
                   !.children = Append(@, [owner |-> i, state |-> "running",
                                           code |-> "none", errored |-> FALSE]),
                   !.childProcess = Len(eb.children) + 1,
                   !.listeners = @ + 2,
                   !.inv[i].pc = "awaiting",
                   !.inv[i].child = Len(eb.children) + 1]
  /\ UNCHANGED <<pluginCallVars, cacheVars, fs>>

\* lines 54-60: the 'exit' event of a child; a child that was sent a signal
\* exits with code null unless it had ended by itself
ChildExit ==
  /\ eb.pc = "build"
  /\ \E c \in 1..Len(eb.children) :
       \E code \in {"0", "1", "null"} :
         /\ eb.children[c].state \in {"running", "killing"}
         /\ code = "null" => eb.children[c].state = "killing"
         /\ eb' = LET e == [eb EXCEPT !.children[c].state = "exited",
                                      !.children[c].code = code]
                  IN IF code = "0" THEN Resolved(e, eb.children[c].owner)
                     ELSE Rejected(e, eb.children[c].owner)
  /\ UNCHANGED <<pluginCallVars, cacheVars, fs>>

\* lines 51-53: the 'error' event of a child: it could not be spawned, or it
\* runs on and a signal or message could not be delivered to it
ChildError ==
  /\ eb.pc = "build"
  /\ \E c \in 1..Len(eb.children) :
       \E spawned \in BOOLEAN :
         /\ ~eb.children[c].errored
         /\ eb.children[c].state \in {"running", "killing"}
         /\ ~spawned => eb.children[c].state = "running"
         /\ eb' = Rejected([eb EXCEPT !.children[c].errored = TRUE,
                                      !.children[c].state =
                                         IF spawned THEN @ ELSE "failed"],
                           eb.children[c].owner)
  /\ UNCHANGED <<pluginCallVars, cacheVars, fs>>

\* lines 24-29: the consumer asks for the next value (or returns): the
\* generator leaves the try block through finally
ConsumerResumes ==
  /\ eb.pc = "build"
  /\ \E i \in 1..MaxInvocations :
       /\ eb.inv[i].pc = "yielded"
       /\ eb' = Finally(eb, i, FALSE)
  /\ UNCHANGED <<pluginCallVars, cacheVars, fs>>

\* line 49: SIGTERM; every listener kills the child childProcess holds now
BuildSigterm ==
  /\ eb.pc = "build"
  /\ eb.listeners > 0
  /\ eb.signals < MaxSignals
  /\ eb' = [eb EXCEPT !.children = KillChild(@, eb.childProcess),
                      !.signals = @ + 1]
  /\ UNCHANGED <<pluginCallVars, cacheVars, fs>>

InitBuild ==
  /\ lastOp = "init"
  /\ input = NoInput
  /\ callerOptions = Undefined
  /\ passedOptions = Undefined
  /\ options = Undefined
  /\ result = NoResult
  /\ proc = "down"
  /\ store = MissingFile
  /\ targetsCache = EmptyObj
  /\ calculatedTargets = EmptyObj
  /\ synth = EmptyObj
  /\ resolved = EmptyObj
  /\ calls = 0
  /\ fs = FsIdle
  /\ eb = EbStart

NextBuild ==
  \/ BuildStart
  \/ ChildExit
  \/ ChildError
  \/ ConsumerResumes
  \/ BuildSigterm

SpecBuild == InitBuild /\ [][NextBuild]_vars

\* invocation i has yielded or completed
Settled(i) == eb.inv[i].pc \in {"yielded", "done"}

\* the child invocation i forked
OwnChild(i) == eb.children[eb.inv[i].child]

\* C11 (as claimed): buildExecutor yields { success: true } exactly when the
\* child it forked exited with code 0 (and no 'error' event came first);
\* otherwise it yields nothing and the rejection reaches the caller; and an
\* invocation that has completed has called kill() on the child it forked
\* and has not left it running, also when invocations overlap.
C11_BuildOutcome ==
  eb.pc = "build" =>
    \A i \in 1..MaxInvocations :
      Settled(i) =>
        /\ eb.inv[i].yielded =>
             (OwnChild(i).state = "exited" /\ OwnChild(i).code = "0")
        /\ (/\ OwnChild(i).state = "exited"
            /\ OwnChild(i).code = "0"
            /\ ~OwnChild(i).errored) => eb.inv[i].yielded
        /\ eb.inv[i].yielded = ~eb.inv[i].threw
        /\ eb.inv[i].pc = "done" =>
             /\ eb.inv[i].child \in eb.inv[i].killed
             /\ OwnChild(i).state # "running"

=============================================================================
